---- MODULE Spec2Model ----
(***************************************************************************)
(* Alert service: the resilience layer (CircuitBreaker, retry) of          *)
(* app/utils/resilience.py, the guarded pricing fetch of                   *)
(* app/services/coin_service.py, demo_resilient_call of app/api/alerts.py  *)
(* and the single-alert evaluation of app/services/alert_service.py.       *)
(***************************************************************************)
EXTENDS Integers, Sequences, FiniteSets, TLC

(***************************************************************************)
(* Bounds of the model.                                                    *)
(***************************************************************************)
MaxTime == 6

MaxCalls == 5

MaxConcurrentCalls == 4

MaxThreshold == 3

MaxTimeout == 3

MaxAttempts == 3

MaxFailures == 3

MaxDelay == 2

MaxBackoff == 3

MaxAppTime == 31

MaxFetches == 7

MaxDemoTime == 4

MaxDemos == 4

MaxEvalTime == 2

MaxEvals == 2

MaxPrice == 2

MaxOutageTime == 15

MaxAlerts == 2

MaxStoreOps == 4

MaxBatchAlerts == 6

TickStep == 5

(* Values a wrapped operation may return. *)
OpValues == {"v1", "v2"}

(***************************************************************************)
(* CircuitState (resilience.py 11-15).                                     *)
(***************************************************************************)
CLOSED == "closed"

OPEN == "open"

HALF_OPEN == "half_open"

CircuitState == {CLOSED, OPEN, HALF_OPEN}

(* last_failure_time = None *)
None == -1

VARIABLES
  now,                \* time.time(), in seconds
  failure_threshold,  \* constructor argument of the breaker under test
  recovery_timeout,   \* constructor argument of the breaker under test
  cb,                 \* the breaker object: state, failure_count, last_failure_time
  pcB,                \* the sequential caller: "idle" or "running" (inside func)
  calls,              \* number of CircuitBreaker.call executions started
  invocations,        \* number of times the wrapped operation was invoked
  last,               \* what the most recent call did and gave its caller
  allFailed,          \* every call so far invoked func and func raised
  pc,                 \* concurrent callers: the line of CircuitBreaker.call each is at
  tmp,                \* concurrent callers: failure_count as loaded by line 52
  incs,               \* number of executions of "self.failure_count += 1" completed
  resets,             \* number of executions of "self.failure_count = 0"
  rArgs,              \* retry under test: max_attempts, delay, backoff and the operation
  rpc,                \* retry under test: "idle", "loop" (line 91) or "done"
  rFrame,             \* retry under test: the wrapper's attempt and current_delay
  rInv,               \* retry under test: invocations of the wrapped operation
  rSleeps,            \* retry under test: the time.sleep arguments, in order
  rOut,               \* retry under test: what the wrapper gave its caller
  pricing,            \* the breaker of _fetch_coin_price ("pricing_service")
  demo,               \* the breaker of demo_resilient_call ("demo_service")
  apc,                \* the request being served: where it is
  ret,                \* who called get_coin_price: "top", "demo" or "eval"
  nreq,               \* number of requests started
  fFrame,             \* locals of the retry wrapper inside _fetch_coin_price
  dFrame,             \* locals of the retry wrapper around demo_resilient_call
  fcall,              \* the current or most recent call of _fetch_coin_price
  dcall,              \* the current or most recent call of demo_resilient_call
  price,              \* what get_coin_price returned
  ev,                 \* the current or most recent check_alert_and_notify
  notifications,      \* number of calls of send_alert_email
  history,            \* the AlertTriggerHistory rows, oldest first
  alerts,             \* the rows of the alerts table, in order of insertion
  resp,               \* the status of the most recent response of set_alert or
                      \* test_pricing
  health,             \* the most recent response of the health endpoint
  deact,              \* the most recent deactivate_alert: its argument and result
  batch,              \* the current or most recent check_all_alerts
  crossed             \* number of evaluations whose price was at or above threshold

(* the breaker under test and its counters *)
varsT == <<failure_threshold, recovery_timeout, cb, calls, invocations>>

(* the sequential caller *)
varsB == <<pcB, last, allFailed>>

(* the concurrent callers *)
varsC == <<pc, tmp, incs, resets>>

(* the retry wrapper under test *)
varsR == <<rArgs, rpc, rFrame, rInv, rSleeps, rOut>>

(* the application: breakers, the request in progress, the trigger history *)
varsA == <<pricing, demo, apc, ret, nreq, fFrame, dFrame, fcall, dcall, price, ev,
           notifications, history>>

(* the alert store and the operations on it *)
varsS == <<alerts, resp, health, deact, batch, crossed>>

vars == <<now, varsT, varsB, varsC, varsR, varsA, varsS>>

(* what the application leaves alone *)
frameA == <<varsT, varsB, varsC, varsR, varsS>>

(* what a request that uses the alert store leaves alone *)
frameS == <<varsT, varsB, varsC, varsR>>

(* what the concurrent callers leave alone *)
frameC == <<failure_threshold, recovery_timeout, varsB, varsR, varsA, varsS>>

(***************************************************************************)
(* CircuitBreaker.__init__                                                 *)
(***************************************************************************)
NewBreaker == [state |-> CLOSED, failure_count |-> 0, last_failure_time |-> None]

(***************************************************************************)
(* CircuitBreaker.call, lines 37-42: the OPEN check made before the        *)
(* wrapped function is invoked.  Yields the breaker after the check and    *)
(* whether the call is rejected ("Circuit ... is OPEN").                   *)
(***************************************************************************)
CallEnter_NoTimeoutCheck(b, timeout, t) ==
  IF b.state = OPEN
    THEN [b |-> [b EXCEPT !.state = HALF_OPEN], rejected |-> FALSE]
    ELSE [b |-> b, rejected |-> FALSE]

CallEnter(b, timeout, t) ==
  IF b.state = OPEN
    THEN IF t - b.last_failure_time >= timeout
           THEN [b |-> [b EXCEPT !.state = HALF_OPEN], rejected |-> FALSE]
           ELSE [b |-> b, rejected |-> TRUE]
    ELSE [b |-> b, rejected |-> FALSE]

(***************************************************************************)
(* CircuitBreaker.call, lines 46-50: func returned.                        *)
(***************************************************************************)
CallSuccess_KeepsCount(b) ==
  IF b.state = HALF_OPEN
    THEN [b EXCEPT !.state = CLOSED]
    ELSE b

CallSuccess(b) ==
  IF b.state = HALF_OPEN
    THEN [b EXCEPT !.state = CLOSED, !.failure_count = 0]
    ELSE b

(***************************************************************************)
(* CircuitBreaker.call, lines 51-59: func raised (the exception is then    *)
(* re-raised to the caller).                                               *)
(***************************************************************************)
CallFailure_StrictThreshold(b, threshold, t) ==
  LET n == b.failure_count + 1
      b1 == [b EXCEPT !.failure_count = n, !.last_failure_time = t]
  IN IF n > threshold THEN [b1 EXCEPT !.state = OPEN] ELSE b1

CallFailure_ExactThreshold(b, threshold, t) ==
  LET n == b.failure_count + 1
      b1 == [b EXCEPT !.failure_count = n, !.last_failure_time = t]
  IN IF n = threshold THEN [b1 EXCEPT !.state = OPEN] ELSE b1

CallFailure(b, threshold, t) ==
  LET n == b.failure_count + 1
      b1 == [b EXCEPT !.failure_count = n, !.last_failure_time = t]
  IN IF n >= threshold THEN [b1 EXCEPT !.state = OPEN] ELSE b1

(***************************************************************************)
(* What the caller of the most recent call observed: when the call ended,  *)
(* what the wrapped operation did ("ok", "fail", or "none" when it was not *)
(* invoked) and returned, whether the call was the HALF_OPEN trial, and    *)
(* what the caller got: "value" with ret, the operation's own exception    *)
(* "op_error", or the "circuit_open" exception of line 42.                 *)
(***************************************************************************)
CallRec(t1, op, opval, trial, out, given) ==
  [t1 |-> t1, op |-> op, opval |-> opval, trial |-> trial, out |-> out, ret |-> given]

NoCall == CallRec(None, "none", "none", FALSE, "none", "none")

Last(seq) == seq[Len(seq)]

(***************************************************************************)
(* retry(max_attempts, delay, backoff): the wrapper's locals, lines 88-89. *)
(***************************************************************************)
RetryNew(delay) == [attempt |-> 1, current_delay |-> delay]

(* line 91: while attempt <= max_attempts *)
RetryContinues_StrictBound(fr, max_attempts) == fr.attempt < max_attempts

RetryContinues(fr, max_attempts) == fr.attempt <= max_attempts

(***************************************************************************)
(* lines 94-105: func raised.  Either the exception is re-raised (line 97, *)
(* a bare raise of the exception just caught) or the wrapper sleeps        *)
(* current_delay and goes round the loop.                                  *)
(***************************************************************************)
RetryOnException_EarlyRaise(fr, max_attempts, backoff) ==
  IF fr.attempt >= max_attempts - 1
    THEN [raise |-> TRUE, sleep |-> 0, fr |-> fr]
    ELSE [raise |-> FALSE, sleep |-> fr.current_delay,
          fr |-> [attempt |-> fr.attempt + 1,
                  current_delay |-> fr.current_delay * backoff]]

RetryOnException_ConstantDelay(fr, max_attempts, backoff) ==
  IF fr.attempt = max_attempts
    THEN [raise |-> TRUE, sleep |-> 0, fr |-> fr]
    ELSE [raise |-> FALSE, sleep |-> fr.current_delay,
          fr |-> [attempt |-> fr.attempt + 1, current_delay |-> fr.current_delay]]

RetryOnException(fr, max_attempts, backoff) ==
  IF fr.attempt = max_attempts
    THEN [raise |-> TRUE, sleep |-> 0, fr |-> fr]
    ELSE [raise |-> FALSE, sleep |-> fr.current_delay,
          fr |-> [attempt |-> fr.attempt + 1,
                  current_delay |-> fr.current_delay * backoff]]

(* the arguments of the retry under test, before the first call *)
NoArgs == [max_attempts |-> 0, delay |-> 0, backoff |-> 0, fails |-> 0, value |-> "none"]

(***************************************************************************)
(* The decorators of _fetch_coin_price (coin_service.py 28-29) and of      *)
(* demo_resilient_call (alerts.py 13-14), and retry's default backoff.     *)
(***************************************************************************)
DefaultThreshold == 5

DefaultTimeout == 60

PricingThreshold == 5

PricingTimeout == 15

FetchAttempts == 3

FetchDelay == 1

DefaultBackoff == 2

DemoAttempts == 2

DemoDelay == 1

DemoThreshold == 3

DemoTimeout == 30

(***************************************************************************)
(* Python values of a price: None, a number, or a JSON value that is not a *)
(* number (a string), which cannot be compared with a float.               *)
(***************************************************************************)
(* float('nan'), which float() gives for the text "nan" (alerts.py 107): a
   number outside the prices and thresholds of the bounds, compared as
   Python compares a NaN, every <= and >= with it being False *)
NaN == -2

Le(x, y) == x # NaN /\ y # NaN /\ x <= y

Ge(x, y) == x # NaN /\ y # NaN /\ x >= y

PyNone == [py |-> "None"]

PyNum(n) == [py |-> "number", v |-> n]

PyText == [py |-> "str"]

PriceValues == {PyNum(n) : n \in 0..MaxPrice} \cup {PyText}

(***************************************************************************)
(* The JSON bodies the pricing service may answer with a 2xx status:       *)
(* {"status": ..., "data": {"current_price": ...}}.  has_data is whether   *)
(* the "data" key is there; current_price is PyNone when the key is        *)
(* missing or null.                                                        *)
(***************************************************************************)
Bodies ==
  [status : {"success"}, has_data : {TRUE}, current_price : PriceValues \cup {PyNone}]
  \cup [status : {"success", "error"}, has_data : {FALSE}, current_price : {PyNone}]
  \cup [status : {"error"}, has_data : {TRUE}, current_price : {PyNum(MaxPrice)}]

(* what makes session.get, raise_for_status or response.json raise *)
FetchErrors == {"connection", "http_status"}

(* get_coin_price, lines 68-80: the price in a body *)
ParsePrice_IgnoresStatus(body) == body.current_price

ParsePrice(body) ==
  IF body.status # "success" \/ ~body.has_data
    THEN PyNone
    ELSE body.current_price

(* check_alert_and_notify, line 53 *)
ThresholdMet_Strict(current_price, threshold_price) == current_price > threshold_price

ThresholdMet_Reversed(current_price, threshold_price) == current_price <= threshold_price

ThresholdMet(current_price, threshold_price) == Ge(current_price, threshold_price)

(* whether the breaker rejects a call made at time t *)
IsRejecting(b, timeout, t) == CallEnter(b, timeout, t).rejected

(* the bookkeeping of one call of _fetch_coin_price: whether the breaker was
   rejecting when it was called, the upstream requests, the attempts of the
   retry wrapper and its sleeps, and how the call ended *)
NewFetchCall(open) ==
  [open |-> open, upstream |-> 0, attempts |-> 0, sleeps |-> 0, out |-> "none"]

(* the bookkeeping of one call of demo_resilient_call: whether the breaker
   was rejecting when it was called, the invocations of the function body,
   the attempts of the retry wrapper and its sleeps, and how the call ended *)
NewDemoCall(open) ==
  [open |-> open, body |-> 0, attempts |-> 0, sleeps |-> 0, out |-> "none"]

(* the alerts handed to check_alert_and_notify *)
AlertInputs ==
  [id : {"a1"}, user_id : {"u1"}, coin_id : {"bitcoin"},
   threshold_price : 1..MaxPrice, is_active : {TRUE}]

NoEval ==
  [alert |-> [id |-> "none"], user_email |-> "", fetched |-> FALSE, price |-> PyNone,
   n0 |-> 0, h0 |-> 0, email_sent |-> FALSE, done |-> FALSE, result |-> FALSE]

(* trigger_alert_email, lines 104-111: the AlertTriggerHistory row *)
TriggerRecord_DefaultSent(a, current_price, email_sent) ==
  [alert_id |-> a.id, user_id |-> a.user_id, coin_id |-> a.coin_id,
   current_price |-> current_price, threshold_price |-> a.threshold_price,
   email_sent |-> TRUE]

TriggerRecord(a, current_price, email_sent) ==
  [alert_id |-> a.id, user_id |-> a.user_id, coin_id |-> a.coin_id,
   current_price |-> current_price, threshold_price |-> a.threshold_price,
   email_sent |-> email_sent]

(* trigger_alert_email, lines 98-113: the history table after the call, given
   what send_alert_email returned *)
TriggerAlertEmail_RecordsOnlySent(h, a, current_price, email_sent) ==
  IF email_sent THEN Append(h, TriggerRecord(a, current_price, email_sent)) ELSE h

TriggerAlertEmail(h, a, current_price, email_sent) ==
  Append(h, TriggerRecord(a, current_price, email_sent))

(* the alerts table: uuid4 keys, one fresh name per row *)
AlertIds == <<"a1", "a2", "a3", "a4", "a5", "a6", "a7", "a8">>

(* the value of the threshold_price field of a creation request's JSON
   body: a number, or a text *)
JsonText(s) == [py |-> "str", s |-> s]

ThresholdFields ==
  {PyNum(n) : n \in {-1, 0, MaxPrice}} \cup {JsonText(s) : s \in {"1", "nan", "abc"}}

(* float(data['threshold_price']), alerts.py 107: a number is itself, a
   text is parsed, "nan" being a float and a text that is no number raising
   ValueError *)
Float(field) ==
  IF field.py = "number" THEN [raises |-> FALSE, v |-> field.v]
  ELSE IF field.s = "1" THEN [raises |-> FALSE, v |-> 1]
  ELSE IF field.s = "nan" THEN [raises |-> FALSE, v |-> NaN]
  ELSE [raises |-> TRUE, v |-> 0]

SetAlertResponse_FailsUnsent(notification_sent) == IF notification_sent THEN 201 ELSE 500

(* set_alert, alerts.py 131-145: the status answered after the immediate
   check, whatever check_alert_and_notify returned or raised *)
SetAlertResponse(notification_sent) == 201

(* test_pricing, alerts.py 370-377: the status answered once get_coin_price
   has returned; it never raises (coin_service.py 82-91), so lines 379-398
   are not reached *)
TestPricingResponse(current_price) == 200

(* what can happen inside send_alert_email *)
MailOutcomes == {"no_app", "no_mail_server", "render_error", "transport_error", "sent"}

SendAlertEmail_TransportRaises(outcome) ==
  [raised |-> outcome = "transport_error", value |-> outcome = "sent"]

(* send_alert_email, email_service.py 184-240: False without an app (193) or
   a MAIL_SERVER (198), True after mail.send (234), and False for any
   exception of the rendering or the transport (238-240) *)
SendAlertEmail(outcome) == [raised |-> FALSE, value |-> outcome = "sent"]

HealthResponse_Always200(db_ok) ==
  [code |-> 200, status |-> "ok", detail |-> "database connection ok", escaped |-> FALSE]

(* health, health.py 67-81: db_ok is whether SELECT 1 executed; escaped is
   whether an exception left the view *)
HealthResponse(db_ok) ==
  IF db_ok
    THEN [code |-> 200, status |-> "ok", detail |-> "database connection ok",
          escaped |-> FALSE]
    ELSE [code |-> 503, status |-> "error", detail |-> "str(exc)", escaped |-> FALSE]

(* no request to the health endpoint yet *)
NoHealth ==
  [n |-> 0, db_ok |-> TRUE,
   response |-> [code |-> 0, status |-> "none", detail |-> "none", escaped |-> FALSE]]

NoDeact == [n |-> 0, alert_id |-> "none", was_active |-> FALSE, result |-> FALSE]

(* check_all_alerts before its first call.  todo is what is left of
   active_alerts, size its length at the start; evaluated counts the calls
   of get_coin_price, triggered the lines logged at 155, no_trigger those
   logged at 158, no_price those of them that say "Current: $None"; seen
   holds, for each call of get_coin_price, the alert's threshold and the
   price returned; result is what the function returns *)
NoBatch ==
  [n |-> 0, todo |-> <<>>, size |-> 0, evaluated |-> 0, triggered |-> 0,
   no_trigger |-> 0, no_price |-> 0, seen |-> <<>>, n0 |-> 0, h0 |-> 0,
   raised |-> FALSE, done |-> FALSE, result |-> PyNone]

(* create_alert, lines 18-23: the Alert row, its key being the n-th fresh id *)
NewAlert(n, user_id, coin_id, threshold_price) ==
  [id |-> AlertIds[n], user_id |-> user_id, coin_id |-> coin_id,
   threshold_price |-> threshold_price, is_active |-> TRUE]

(* set_alert, line 111 *)
ThresholdRejected(threshold_price) == Le(threshold_price, 0)

(* Alert.query.get(alert_id): the position of the row, 0 when there is none *)
Find(store, alert_id) ==
  IF \E i \in 1..Len(store) : store[i].id = alert_id
    THEN CHOOSE i \in 1..Len(store) : store[i].id = alert_id
    ELSE 0

(* deactivate_alert, lines 126-131: the table afterwards and the result *)
Deactivate_Toggles(store, alert_id) ==
  LET i == Find(store, alert_id)
  IN IF i # 0
       THEN [alerts |-> [store EXCEPT ![i].is_active = ~store[i].is_active],
             result |-> TRUE]
       ELSE [alerts |-> store, result |-> FALSE]

Deactivate_AlwaysTrue(store, alert_id) ==
  LET i == Find(store, alert_id)
  IN IF i # 0
       THEN [alerts |-> [store EXCEPT ![i].is_active = FALSE], result |-> TRUE]
       ELSE [alerts |-> store, result |-> TRUE]

Deactivate(store, alert_id) ==
  LET i == Find(store, alert_id)
  IN IF i # 0
       THEN [alerts |-> [store EXCEPT ![i].is_active = FALSE], result |-> TRUE]
       ELSE [alerts |-> store, result |-> FALSE]

(* check_all_alerts, line 144: Alert.query.filter(Alert.is_active == True) *)
IsActive(a) == a.is_active

ActiveAlerts_All(store) == store

ActiveAlerts(store) == SelectSeq(store, IsActive)

(* trigger_alert_email, lines 104-113: the alerts table after the call; only
   an AlertTriggerHistory row is added to the session *)
AfterTrigger_Deactivates(store, a) ==
  [i \in 1..Len(store) |->
     IF store[i].id = a.id THEN [store[i] EXCEPT !.is_active = FALSE] ELSE store[i]]

AfterTrigger(store, a) == store

(* the concurrent callers of the breaker *)
NumCallers == 2

Callers == 1..NumCallers

(***************************************************************************)
(* The state after construction.                                           *)
(***************************************************************************)
InitTable(thresholds, timeouts, t0, b0, table) ==
  /\ now = t0
  /\ failure_threshold \in thresholds
  /\ recovery_timeout \in timeouts
  /\ cb = NewBreaker
  /\ calls = 0
  /\ invocations = 0
  /\ pcB = "idle"
  /\ last = NoCall
  /\ allFailed = TRUE
  /\ pc = [c \in Callers |-> "idle"]
  /\ tmp = [c \in Callers |-> 0]
  /\ incs = 0
  /\ resets = 0
  /\ rArgs = NoArgs
  /\ rpc = "idle"
  /\ rFrame = RetryNew(0)
  /\ rInv = 0
  /\ rSleeps = <<>>
  /\ rOut = [kind |-> "none"]
  /\ pricing = b0
  /\ demo = NewBreaker
  /\ apc = "idle"
  /\ ret = "top"
  /\ nreq = 0
  /\ fFrame = RetryNew(FetchDelay)
  /\ dFrame = RetryNew(DemoDelay)
  /\ fcall = NewFetchCall(FALSE)
  /\ dcall = NewDemoCall(FALSE)
  /\ price = PyNone
  /\ ev = NoEval
  /\ alerts = table
  /\ resp = 0
  /\ health = NoHealth
  /\ deact = NoDeact
  /\ batch = NoBatch
  /\ crossed = 0
  /\ notifications = 0
  /\ history = <<>>

(* the application with an empty alerts table *)
InitState(thresholds, timeouts, t0, b0) == InitTable(thresholds, timeouts, t0, b0, <<>>)

(* a breaker constructed with any arguments within the bounds *)
InitWith(thresholds, timeouts) == InitState(thresholds, timeouts, 0, NewBreaker)

Init == InitWith(1..MaxThreshold, 1..MaxTimeout)

(* the application's own breakers only; the breaker under test is one made
   with CircuitBreaker's default arguments (resilience.py 21) and unused *)
InitApp == InitWith({DefaultThreshold}, {DefaultTimeout})

(* the earliest time PricingThreshold fetches can have failed: each one
   sleeps FetchDelay and then FetchDelay * DefaultBackoff before its third
   attempt fails (SpecFetch reaches this breaker state at this time) *)
OutageStart == PricingThreshold * (FetchDelay + FetchDelay * DefaultBackoff)

(* the application at start, or with the pricing breaker as the failure of
   the PricingThreshold-th fetch leaves it (resilience.py 52-56) *)
InitOutage ==
  \/ InitApp
  \/ InitState({DefaultThreshold}, {DefaultTimeout}, OutageStart,
               [state |-> OPEN, failure_count |-> PricingThreshold,
                last_failure_time |-> OutageStart])

(* the seconds a fetch that exhausts its retries sleeps *)
FetchSeconds == FetchDelay + FetchDelay * DefaultBackoff

(* the pricing breaker after k fetches that exhausted their retries one
   after the other, from the start of the application *)
RECURSIVE BreakerAfter(_)
BreakerAfter(k) ==
  IF k = 0 THEN NewBreaker
  ELSE CallFailure(BreakerAfter(k - 1), PricingThreshold, k * FetchSeconds)

(* a table of n active alerts, created by two users while the pricing
   service answered *)
Table(n) ==
  [i \in 1..n |-> NewAlert(i, IF i % 2 = 1 THEN "u1" ELSE "u2", "bitcoin", MaxPrice)]

(* the application after k exhausted fetches, with a table of n alerts *)
InitShared ==
  \E k \in {0, PricingThreshold - 1}, n \in {1, MaxBatchAlerts} :
    InitTable({DefaultThreshold}, {DefaultTimeout}, k * FetchSeconds, BreakerAfter(k),
              Table(n))

(* time passes *)
Tick ==
  /\ now < MaxTime
  /\ now' = now + 1

(***************************************************************************)
(* One caller at a time on one breaker.                                    *)
(***************************************************************************)
TickB == Tick /\ UNCHANGED <<varsT, varsB, varsC, varsR, varsA, varsS>>

(* breaker.call(func): lines 37-45, up to the invocation of func *)
BCall ==
  /\ pcB = "idle"
  /\ calls < MaxCalls
  /\ calls' = calls + 1
  /\ LET e == CallEnter(cb, recovery_timeout, now)
     IN /\ cb' = e.b
        /\ IF e.rejected
             THEN /\ pcB' = "idle"
                  /\ invocations' = invocations
                  /\ last' = CallRec(now, "none", "none", FALSE, "circuit_open", "none")
                  /\ allFailed' = FALSE
             ELSE /\ pcB' = "running"
                  /\ invocations' = invocations + 1
                  /\ last' = CallRec(None, "none", "none", e.b.state = HALF_OPEN,
                                     "pending", "none")
                  /\ allFailed' = allFailed
  /\ UNCHANGED <<now, failure_threshold, recovery_timeout, varsC, varsR, varsA, varsS>>

(* func returns v: lines 46-50 *)
BReturn(v) ==
  /\ pcB = "running"
  /\ cb' = CallSuccess(cb)
  /\ pcB' = "idle"
  /\ last' = CallRec(now, "ok", v, last.trial, "value", v)
  /\ allFailed' = FALSE
  /\ UNCHANGED <<now, failure_threshold, recovery_timeout, calls, invocations, varsC, varsR, varsA, varsS>>

(* func raises: lines 51-59 *)
BRaise ==
  /\ pcB = "running"
  /\ cb' = CallFailure(cb, failure_threshold, now)
  /\ pcB' = "idle"
  /\ last' = CallRec(now, "fail", "none", last.trial, "op_error", "none")
  /\ UNCHANGED <<now, failure_threshold, recovery_timeout, calls, invocations, allFailed,
                 varsC, varsR, varsA, varsS>>

NextB ==
  \/ TickB
  \/ BCall
  \/ \E v \in OpValues : BReturn(v)
  \/ BRaise

(***************************************************************************)
(* One caller that keeps calling, a wrapped operation that raises at most  *)
(* MaxFailures times, each time early enough for recovery_timeout to pass  *)
(* before MaxTime, and returns ever after.  The counters of calls and      *)
(* invocations are left alone; incs counts the failures.                   *)
(***************************************************************************)
RecTick == Tick /\ UNCHANGED <<varsT, varsB, varsC, varsR, varsA, varsS>>

(* breaker.call(func): lines 37-45 *)
RecCall ==
  /\ pcB = "idle"
  /\ LET e == CallEnter(cb, recovery_timeout, now)
     IN /\ cb' = e.b
        /\ pcB' = IF e.rejected THEN "idle" ELSE "running"
  /\ UNCHANGED <<now, failure_threshold, recovery_timeout, calls, invocations, last,
                 allFailed, varsC, varsR, varsA, varsS>>

(* func returns: lines 46-50 *)
RecReturn ==
  /\ pcB = "running"
  /\ cb' = CallSuccess(cb)
  /\ pcB' = "idle"
  /\ UNCHANGED <<now, failure_threshold, recovery_timeout, calls, invocations, last,
                 allFailed, varsC, varsR, varsA, varsS>>

(* func raises: lines 51-59 *)
RecRaise ==
  /\ pcB = "running"
  /\ incs < MaxFailures
  /\ now + recovery_timeout <= MaxTime
  /\ incs' = incs + 1
  /\ cb' = CallFailure(cb, failure_threshold, now)
  /\ pcB' = "idle"
  /\ UNCHANGED <<now, failure_threshold, recovery_timeout, calls, invocations, last,
                 allFailed, pc, tmp, resets, varsR, varsA, varsS>>

NextRec ==
  \/ RecTick
  \/ RecCall
  \/ RecReturn
  \/ RecRaise

(***************************************************************************)
(* Claims about one breaker used by one caller at a time.                  *)
(***************************************************************************)

(* C1: a call made while the breaker is OPEN and less than recovery_timeout
   has elapsed since last_failure_time is rejected with the circuit-open
   error, does not invoke the wrapped operation and leaves state,
   failure_count and last_failure_time as they were. *)
C1_OpenRejects ==
  [][(/\ calls' = calls + 1
      /\ cb.state = OPEN
      /\ now - cb.last_failure_time < recovery_timeout)
     => (/\ last'.out = "circuit_open"
         /\ last'.op = "none"
         /\ pcB' = "idle"
         /\ invocations' = invocations
         /\ cb' = cb)]_vars

C1_Witness ==
  /\ last.out = "circuit_open"
  /\ cb.state = OPEN
  /\ now - cb.last_failure_time < recovery_timeout
  /\ invocations < calls

(* C2: from a fresh breaker, while every call so far has failed, the breaker
   is CLOSED before the failure_threshold-th failure and OPEN after it, with
   last_failure_time the time of that failure; every such call gave its
   caller the operation's own exception. *)
C2_OpensAtThreshold ==
  (pcB = "idle" /\ allFailed /\ calls <= failure_threshold)
  => /\ cb.failure_count = calls
     /\ (calls > 0 => last.op = "fail" /\ last.out = "op_error")
     /\ (calls < failure_threshold => cb.state = CLOSED)
     /\ (calls = failure_threshold
           => cb.state = OPEN /\ cb.last_failure_time = last.t1)

C2_Witness ==
  /\ pcB = "idle"
  /\ allFailed
  /\ failure_threshold >= 2
  /\ calls = failure_threshold
  /\ cb.state = OPEN
  /\ now > cb.last_failure_time

(* C3: time passing alone never changes the breaker; only a call moves it
   to HALF_OPEN; a call made when the breaker is OPEN and recovery_timeout
   has elapsed moves it to HALF_OPEN and invokes the operation once; when
   that trial succeeds the breaker is CLOSED with failure_count 0 and the
   caller gets the operation's value. *)
C3_HalfOpenTrial ==
  [][/\ (now' # now => cb' = cb)
     /\ (cb'.state = HALF_OPEN /\ cb.state # HALF_OPEN => calls' = calls + 1)
     /\ ((/\ calls' = calls + 1
          /\ cb.state = OPEN
          /\ now - cb.last_failure_time >= recovery_timeout)
         => (/\ cb'.state = HALF_OPEN
             /\ pcB' = "running"
             /\ last'.trial
             /\ invocations' = invocations + 1))
     /\ ((pcB = "running" /\ last.trial /\ pcB' = "idle" /\ last'.op = "ok")
         => (/\ cb'.state = CLOSED
             /\ cb'.failure_count = 0
             /\ last'.out = "value"
             /\ last'.ret = last'.opval))]_vars

C3_Witness ==
  /\ pcB = "idle"
  /\ last.trial
  /\ last.op = "ok"
  /\ last.out = "value"
  /\ cb.state = CLOSED
  /\ cb.failure_count = 0

(* C4: when the HALF_OPEN trial fails the breaker is OPEN again with
   last_failure_time the time of that failure, and a call made less than
   recovery_timeout after the trial failure is rejected without invoking
   the operation. *)
C4_TrialFailureReopens ==
  [][/\ ((pcB = "running" /\ last.trial /\ pcB' = "idle" /\ last'.op = "fail")
         => (/\ cb'.state = OPEN
             /\ cb'.last_failure_time = now
             /\ last'.t1 = now
             /\ last'.out = "op_error"))
     /\ ((/\ calls' = calls + 1
          /\ last.trial
          /\ last.op = "fail"
          /\ now - last.t1 < recovery_timeout)
         => (/\ last'.out = "circuit_open"
             /\ invocations' = invocations
             /\ cb' = cb))]_vars

C4_Witness ==
  /\ pcB = "idle"
  /\ last.trial
  /\ last.op = "fail"
  /\ cb.state = OPEN
  /\ cb.last_failure_time = last.t1
  /\ now > last.t1
  /\ now - last.t1 < recovery_timeout

(***************************************************************************)
(* CircuitBreaker.call executed by concurrent callers on one breaker, one  *)
(* step per access to the breaker object.  The code takes no lock.         *)
(***************************************************************************)
(* line 37: if self.state == CircuitState.OPEN *)
SCall(c) ==
  /\ pc[c] = "idle"
  /\ calls < MaxConcurrentCalls
  /\ calls' = calls + 1
  /\ pc' = [pc EXCEPT ![c] = IF cb.state = OPEN THEN "L38" ELSE "L45"]
  /\ UNCHANGED <<now, frameC, cb, invocations, tmp, incs, resets>>

(* line 38: the elapsed-time check; line 42: raise *)
SCheckTimeout(c) ==
  /\ pc[c] = "L38"
  /\ pc' = [pc EXCEPT ![c] =
              IF now - cb.last_failure_time >= recovery_timeout THEN "L39" ELSE "idle"]
  /\ UNCHANGED <<now, frameC, cb, calls, invocations, tmp, incs, resets>>

(* line 39: self.state = CircuitState.HALF_OPEN *)
SSetHalfOpen(c) ==
  /\ pc[c] = "L39"
  /\ cb' = [cb EXCEPT !.state = HALF_OPEN]
  /\ pc' = [pc EXCEPT ![c] = "L45"]
  /\ UNCHANGED <<now, frameC, calls, invocations, tmp, incs, resets>>

(* line 45: func is invoked *)
SInvoke(c) ==
  /\ pc[c] = "L45"
  /\ invocations' = invocations + 1
  /\ pc' = [pc EXCEPT ![c] = "func"]
  /\ UNCHANGED <<now, frameC, cb, calls, tmp, incs, resets>>

(* func returns *)
SFuncReturn(c) ==
  /\ pc[c] = "func"
  /\ pc' = [pc EXCEPT ![c] = "L46"]
  /\ UNCHANGED <<now, frameC, cb, calls, invocations, tmp, incs, resets>>

(* func raises *)
SFuncRaise(c) ==
  /\ pc[c] = "func"
  /\ pc' = [pc EXCEPT ![c] = "L52"]
  /\ UNCHANGED <<now, frameC, cb, calls, invocations, tmp, incs, resets>>

(* line 46: if self.state == CircuitState.HALF_OPEN; line 50: return *)
SCheckHalfOpen(c) ==
  /\ pc[c] = "L46"
  /\ pc' = [pc EXCEPT ![c] = IF cb.state = HALF_OPEN THEN "L47" ELSE "idle"]
  /\ UNCHANGED <<now, frameC, cb, calls, invocations, tmp, incs, resets>>

(* line 47: self.state = CircuitState.CLOSED *)
SSetClosed(c) ==
  /\ pc[c] = "L47"
  /\ cb' = [cb EXCEPT !.state = CLOSED]
  /\ pc' = [pc EXCEPT ![c] = "L48"]
  /\ UNCHANGED <<now, frameC, calls, invocations, tmp, incs, resets>>

(* line 48: self.failure_count = 0; line 50: return *)
SResetCount(c) ==
  /\ pc[c] = "L48"
  /\ cb' = [cb EXCEPT !.failure_count = 0]
  /\ resets' = resets + 1
  /\ pc' = [pc EXCEPT ![c] = "idle"]
  /\ UNCHANGED <<now, frameC, calls, invocations, tmp, incs>>

(* line 52, self.failure_count += 1: the load of failure_count *)
SLoadCount(c) ==
  /\ pc[c] = "L52"
  /\ tmp' = [tmp EXCEPT ![c] = cb.failure_count]
  /\ pc' = [pc EXCEPT ![c] = "L52s"]
  /\ UNCHANGED <<now, frameC, cb, calls, invocations, incs, resets>>

(* line 52, self.failure_count += 1: the store of the incremented value *)
SStoreCount(c) ==
  /\ pc[c] = "L52s"
  /\ cb' = [cb EXCEPT !.failure_count = tmp[c] + 1]
  /\ tmp' = [tmp EXCEPT ![c] = 0]
  /\ incs' = incs + 1
  /\ pc' = [pc EXCEPT ![c] = "L53"]
  /\ UNCHANGED <<now, frameC, calls, invocations, resets>>

(* line 53: self.last_failure_time = time.time() *)
SSetFailureTime(c) ==
  /\ pc[c] = "L53"
  /\ cb' = [cb EXCEPT !.last_failure_time = now]
  /\ pc' = [pc EXCEPT ![c] = "L55"]
  /\ UNCHANGED <<now, frameC, calls, invocations, tmp, incs, resets>>

(* line 55: if self.failure_count >= self.failure_threshold; line 59: raise *)
SCheckThreshold(c) ==
  /\ pc[c] = "L55"
  /\ pc' = [pc EXCEPT ![c] =
              IF cb.failure_count >= failure_threshold THEN "L56" ELSE "idle"]
  /\ UNCHANGED <<now, frameC, cb, calls, invocations, tmp, incs, resets>>

(* line 56: self.state = CircuitState.OPEN; line 59: raise *)
SSetOpen(c) ==
  /\ pc[c] = "L56"
  /\ cb' = [cb EXCEPT !.state = OPEN]
  /\ pc' = [pc EXCEPT ![c] = "idle"]
  /\ UNCHANGED <<now, frameC, calls, invocations, tmp, incs, resets>>

TickC == Tick /\ UNCHANGED <<frameC, cb, calls, invocations, pc, tmp, incs, resets>>

NextC ==
  \/ TickC
  \/ \E c \in Callers : SCall(c)
  \/ \E c \in Callers : SCheckTimeout(c)
  \/ \E c \in Callers : SSetHalfOpen(c)
  \/ \E c \in Callers : SInvoke(c)
  \/ \E c \in Callers : SFuncReturn(c)
  \/ \E c \in Callers : SFuncRaise(c)
  \/ \E c \in Callers : SCheckHalfOpen(c)
  \/ \E c \in Callers : SSetClosed(c)
  \/ \E c \in Callers : SResetCount(c)
  \/ \E c \in Callers : SLoadCount(c)
  \/ \E c \in Callers : SStoreCount(c)
  \/ \E c \in Callers : SSetFailureTime(c)
  \/ \E c \in Callers : SCheckThreshold(c)
  \/ \E c \in Callers : SSetOpen(c)

(* C5: while the breaker is HALF_OPEN at most one caller is inside the
   wrapped operation. *)
C5_OneTrialInFlight ==
  cb.state = HALF_OPEN => Cardinality({c \in Callers : pc[c] = "func"}) <= 1

(* C6: no failure increment is lost: as long as failure_count has not been
   reset it equals the number of increments executed, as it does in every
   serial order of the calls. *)
C6_NoLostIncrement ==
  resets = 0 => cb.failure_count = incs

(***************************************************************************)
(* retry(max_attempts, delay, backoff) around an operation that raises on  *)
(* its first `fails` invocations and returns `value` afterwards.           *)
(***************************************************************************)

(* the wrapper is called: lines 88-89 *)
RCall(n, d, b, k, v) ==
  /\ rpc = "idle"
  /\ rArgs' = [max_attempts |-> n, delay |-> d, backoff |-> b, fails |-> k, value |-> v]
  /\ rFrame' = RetryNew(d)
  /\ rInv' = 0
  /\ rSleeps' = <<>>
  /\ rOut' = [kind |-> "none"]
  /\ rpc' = "loop"
  /\ UNCHANGED <<now, varsT, varsB, varsC, varsA, varsS>>

(* line 91 found false: the wrapper falls off its end and returns None *)
RFallThrough ==
  /\ rpc = "loop"
  /\ ~RetryContinues(rFrame, rArgs.max_attempts)
  /\ rOut' = [kind |-> "returned_none"]
  /\ rpc' = "done"
  /\ UNCHANGED <<now, varsT, varsB, varsC, varsA, varsS, rArgs, rFrame, rInv, rSleeps>>

(* lines 92-93: func is invoked and returns *)
RAttemptReturns ==
  /\ rpc = "loop"
  /\ RetryContinues(rFrame, rArgs.max_attempts)
  /\ rInv + 1 > rArgs.fails
  /\ rInv' = rInv + 1
  /\ rOut' = [kind |-> "value", val |-> rArgs.value, after |-> rInv + 1]
  /\ rpc' = "done"
  /\ UNCHANGED <<now, varsT, varsB, varsC, varsA, varsS, rArgs, rFrame, rSleeps>>

(* lines 92-105: func is invoked and raises its own exception, the
   (rInv+1)-th failure *)
RAttemptRaises ==
  /\ rpc = "loop"
  /\ RetryContinues(rFrame, rArgs.max_attempts)
  /\ rInv + 1 <= rArgs.fails
  /\ rInv' = rInv + 1
  /\ LET r == RetryOnException(rFrame, rArgs.max_attempts, rArgs.backoff)
     IN IF r.raise
          THEN /\ rOut' = [kind |-> "op_error", failure |-> rInv + 1]
               /\ rpc' = "done"
               /\ UNCHANGED <<rFrame, rSleeps>>
          ELSE /\ rSleeps' = Append(rSleeps, r.sleep)
               /\ rFrame' = r.fr
               /\ UNCHANGED <<rOut, rpc>>
  /\ UNCHANGED <<now, varsT, varsB, varsC, varsA, varsS, rArgs>>

NextR ==
  \/ \E n \in -1..MaxAttempts, d \in 1..MaxDelay, b \in 1..MaxBackoff,
        k \in 0..MaxFailures, v \in OpValues : RCall(n, d, b, k, v)
  \/ RFallThrough
  \/ RAttemptReturns
  \/ RAttemptRaises

(* C7: with max_attempts >= 1, an operation that fails on its first k
   invocations, k <= max_attempts - 1, and then succeeds is invoked exactly
   k + 1 times and the wrapper returns the operation's value. *)
C7_RetryUntilSuccess ==
  (rpc = "done" /\ rArgs.max_attempts >= 1 /\ rArgs.fails <= rArgs.max_attempts - 1)
  => /\ rInv = rArgs.fails + 1
     /\ rOut.kind = "value"
     /\ rOut.val = rArgs.value

C7_Witness ==
  /\ rpc = "done"
  /\ rArgs.max_attempts >= 2
  /\ rArgs.fails = rArgs.max_attempts - 1
  /\ rInv = rArgs.max_attempts
  /\ rOut.kind = "value"

(* C8 as stated: an operation that always fails is invoked max_attempts
   times and the wrapper raises a failure of kind RetryExhausted. *)
C8_RaisesRetryExhausted ==
  (rpc = "done" /\ rArgs.max_attempts >= 1 /\ rArgs.fails >= rArgs.max_attempts)
  => /\ rInv = rArgs.max_attempts
     /\ rOut.kind = "retry_exhausted"

(* C8 amended: an operation that fails on every invocation is invoked
   exactly max_attempts times and the wrapper re-raises the operation's own
   exception of the last invocation, as it is; it returns no value. *)
C8_ReraisesLastFailure ==
  (rpc = "done" /\ rArgs.max_attempts >= 1 /\ rArgs.fails >= rArgs.max_attempts)
  => /\ rInv = rArgs.max_attempts
     /\ rOut.kind = "op_error"
     /\ rOut.failure = rArgs.max_attempts

C8_Witness ==
  /\ rpc = "done"
  /\ rArgs.max_attempts >= 2
  /\ rArgs.fails >= rArgs.max_attempts
  /\ rInv = rArgs.max_attempts
  /\ rOut.kind = "op_error"

(***************************************************************************)
(* The application, one request at a time.                                 *)
(***************************************************************************)

(* time passes between requests *)
TickA(limit) ==
  /\ apc = "idle"
  /\ now < limit
  /\ now' = now + 1
  /\ UNCHANGED <<frameA, varsA>>

(* get_coin_price(coin_id) is called by a route (test_pricing) *)
ReqFetch ==
  /\ apc = "idle"
  /\ nreq < MaxFetches
  /\ nreq' = nreq + 1
  /\ apc' = "gcp"
  /\ ret' = "top"
  /\ UNCHANGED <<now, frameA, pricing, demo, fFrame, dFrame, fcall, dcall, price, ev,
                 notifications, history>>

(* get_coin_price, line 65: _fetch_coin_price(url), that is
   breaker.call(retry wrapper); the breaker rejects (resilience.py 42) and
   get_coin_price returns None (lines 82-91), or the retry wrapper starts *)
GcpCall ==
  /\ apc = "gcp"
  /\ LET e == CallEnter(pricing, PricingTimeout, now)
         c == NewFetchCall(IsRejecting(pricing, PricingTimeout, now))
     IN /\ pricing' = e.b
        /\ IF e.rejected
             THEN /\ fcall' = [c EXCEPT !.out = "circuit_open"]
                  /\ price' = PyNone
                  /\ apc' = "gcp_ret"
                  /\ UNCHANGED fFrame
             ELSE /\ fcall' = c
                  /\ fFrame' = RetryNew(FetchDelay)
                  /\ apc' = "f_loop"
                  /\ UNCHANGED price
  /\ UNCHANGED <<now, frameA, demo, ret, nreq, dFrame, dcall, ev, notifications, history>>

(* _fetch_coin_price, lines 41-43, answered 2xx with a JSON body: the retry
   wrapper returns it (resilience.py 93), the breaker sees a success
   (46-50), get_coin_price extracts the price (68-80) *)
FetchAttemptOk(body) ==
  /\ apc = "f_loop"
  /\ RetryContinues(fFrame, FetchAttempts)
  /\ fcall' = [fcall EXCEPT !.upstream = @ + 1, !.attempts = @ + 1,
                             !.out = IF body.status = "success" /\ body.has_data
                                       THEN "data"
                                       ELSE "invalid_response"]
  /\ pricing' = CallSuccess(pricing)
  /\ price' = ParsePrice(body)
  /\ apc' = "gcp_ret"
  /\ UNCHANGED <<now, frameA, demo, ret, nreq, fFrame, dFrame, dcall, ev, notifications,
                 history>>

(* _fetch_coin_price, lines 41-43, raises: the retry wrapper sleeps and goes
   round (resilience.py 99-105), or re-raises (97), the breaker counts one
   failure (51-59) and get_coin_price returns None (82-91) *)
FetchAttemptFails(err) ==
  /\ apc = "f_loop"
  /\ RetryContinues(fFrame, FetchAttempts)
  /\ LET r == RetryOnException(fFrame, FetchAttempts, DefaultBackoff)
     IN IF r.raise
          THEN /\ fcall' = [fcall EXCEPT !.upstream = @ + 1, !.attempts = @ + 1,
                                         !.out = err]
               /\ pricing' = CallFailure(pricing, PricingThreshold, now)
               /\ price' = PyNone
               /\ apc' = "gcp_ret"
               /\ UNCHANGED <<now, fFrame>>
          ELSE /\ now + r.sleep <= MaxAppTime
               /\ now' = now + r.sleep
               /\ fcall' = [fcall EXCEPT !.upstream = @ + 1, !.attempts = @ + 1,
                                         !.sleeps = @ + 1]
               /\ fFrame' = r.fr
               /\ UNCHANGED <<pricing, price, apc>>
  /\ UNCHANGED <<frameA, demo, ret, nreq, dFrame, dcall, ev, notifications, history>>

(* get_coin_price returns to the route *)
GcpReturnTop ==
  /\ apc = "gcp_ret"
  /\ ret = "top"
  /\ apc' = "idle"
  /\ resp' = TestPricingResponse(price)
  /\ UNCHANGED <<now, frameS, pricing, demo, ret, nreq, fFrame, dFrame, fcall, dcall, price,
                 ev, notifications, history, alerts, health, deact, batch, crossed>>

(* demo_resilient_call(coin_id) is called: the retry wrapper starts *)
ReqDemo ==
  /\ apc = "idle"
  /\ nreq < MaxDemos
  /\ nreq' = nreq + 1
  /\ dFrame' = RetryNew(DemoDelay)
  /\ dcall' = NewDemoCall(IsRejecting(demo, DemoTimeout, now))
  /\ apc' = "d_loop"
  /\ UNCHANGED <<now, frameA, pricing, demo, ret, fFrame, fcall, price, ev, notifications,
                 history>>

(* demo_resilient_call's retry wrapper handles an exception of its func,
   breaker.call: resilience.py 94-105 *)
DemoOnException(c, out) ==
  LET r == RetryOnException(dFrame, DemoAttempts, DefaultBackoff)
  IN IF r.raise
       THEN /\ dcall' = [c EXCEPT !.out = out]
            /\ apc' = "idle"
            /\ UNCHANGED <<now, dFrame>>
       ELSE /\ now + r.sleep <= MaxAppTime
            /\ now' = now + r.sleep
            /\ dcall' = [c EXCEPT !.sleeps = @ + 1]
            /\ dFrame' = r.fr
            /\ apc' = "d_loop"

(* the retry wrapper calls breaker.call(demo_resilient_call body),
   resilience.py 93: the breaker rejects or the body runs and calls
   get_coin_price (alerts.py 26) *)
DemoAttempt ==
  /\ apc = "d_loop"
  /\ RetryContinues(dFrame, DemoAttempts)
  /\ LET e == CallEnter(demo, DemoTimeout, now)
         c == [dcall EXCEPT !.attempts = @ + 1]
     IN /\ demo' = e.b
        /\ IF e.rejected
             THEN /\ DemoOnException(c, "circuit_open")
                  /\ UNCHANGED ret
             ELSE /\ dcall' = [c EXCEPT !.body = @ + 1]
                  /\ apc' = "gcp"
                  /\ ret' = "demo"
                  /\ UNCHANGED <<now, dFrame>>
  /\ UNCHANGED <<frameA, pricing, nreq, fFrame, fcall, price, ev, notifications, history>>

(* get_coin_price returns to the body of demo_resilient_call, alerts.py
   27-29: None makes the body raise, the breaker counts a failure and the
   retry wrapper handles the exception; otherwise the body returns *)
GcpReturnDemo ==
  /\ apc = "gcp_ret"
  /\ ret = "demo"
  /\ IF price = PyNone
       THEN /\ demo' = CallFailure(demo, DemoThreshold, now)
            /\ DemoOnException(dcall, "no_price")
       ELSE /\ demo' = CallSuccess(demo)
            /\ dcall' = [dcall EXCEPT !.out = "value"]
            /\ apc' = "idle"
            /\ UNCHANGED <<now, dFrame>>
  /\ UNCHANGED <<frameA, pricing, ret, nreq, fFrame, fcall, price, ev, notifications,
                 history>>

(* check_alert_and_notify(alert, user_email), lines 41-46 *)
ReqEval(alert, user_email) ==
  /\ apc = "idle"
  /\ nreq < MaxEvals
  /\ nreq' = nreq + 1
  /\ LET e == [alert |-> alert, user_email |-> user_email, fetched |-> FALSE,
               price |-> PyNone, n0 |-> notifications, h0 |-> Len(history),
               email_sent |-> FALSE, done |-> FALSE, result |-> FALSE]
     IN IF user_email = ""
          THEN /\ ev' = [e EXCEPT !.done = TRUE, !.result = FALSE]
               /\ UNCHANGED <<apc, ret>>
          ELSE /\ ev' = e
               /\ apc' = "gcp"
               /\ ret' = "eval"
  /\ UNCHANGED <<now, frameA, pricing, demo, fFrame, dFrame, fcall, dcall, price,
                 notifications, history>>

(* check_alert_and_notify, lines 47-68, once get_coin_price has returned,
   with trigger_alert_email, lines 88-116; email_sent is what
   send_alert_email returns *)
EvalReturn(email_sent) ==
  LET e == [ev EXCEPT !.fetched = TRUE, !.price = price]
      a == ev.alert
  IN IF price = PyNone
       THEN /\ ev' = [e EXCEPT !.done = TRUE, !.result = FALSE]
            /\ UNCHANGED <<notifications, history, crossed, alerts>>
       ELSE IF price.py # "number"
         THEN \* line 53 raises TypeError, caught at line 66
              /\ ev' = [e EXCEPT !.done = TRUE, !.result = FALSE]
              /\ UNCHANGED <<notifications, history, crossed, alerts>>
         ELSE /\ crossed' = IF Ge(price.v, a.threshold_price) THEN crossed + 1 ELSE crossed
              /\ IF ThresholdMet(price.v, a.threshold_price)
                   THEN /\ notifications' = notifications + 1
                        /\ history' = TriggerAlertEmail(history, a, price.v, email_sent)
                        /\ alerts' = AfterTrigger(alerts, a)
                        /\ ev' = [e EXCEPT !.done = TRUE, !.email_sent = email_sent,
                                            !.result = email_sent]
                   ELSE /\ ev' = [e EXCEPT !.done = TRUE, !.result = FALSE]
                        /\ UNCHANGED <<notifications, history, alerts>>

(* get_coin_price returns to check_alert_and_notify *)
GcpReturnEval(email_sent) ==
  /\ apc = "gcp_ret"
  /\ ret = "eval"
  /\ apc' = "idle"
  /\ EvalReturn(email_sent)
  /\ UNCHANGED <<now, frameS, pricing, demo, ret, nreq, fFrame, dFrame, fcall, dcall, price,
                 resp, health, deact, batch>>

(* set_alert, alerts.py 100-149, with create_alert, alert_service.py 18-28.
   row_ok is whether the alerts table accepts the row: create_alert sets no
   user_email, which the table of models/models.py (line 16) requires and
   the table of models.py does not have. *)
SetAlert(user_id, user_email, threshold_price, row_ok) ==
  /\ apc = "idle"
  /\ nreq < MaxStoreOps
  /\ nreq' = nreq + 1
  /\ IF ThresholdRejected(threshold_price) \/ user_email = ""
       THEN \* lines 111-113 and 121-123
            /\ resp' = 400
            /\ UNCHANGED <<alerts, ev, apc, ret>>
       ELSE IF ~row_ok
         THEN \* db.session.commit() raises, caught at line 148
              /\ resp' = 500
              /\ UNCHANGED <<alerts, ev, apc, ret>>
         ELSE /\ Len(alerts) < MaxAlerts
              /\ LET alert == NewAlert(Len(alerts) + 1, user_id, "bitcoin", threshold_price)
                 IN /\ alerts' = Append(alerts, alert)
                    \* line 133: check_alert_and_notify(alert, user_email)
                    /\ ev' = [alert |-> alert, user_email |-> user_email,
                              fetched |-> FALSE, price |-> PyNone,
                              n0 |-> notifications, h0 |-> Len(history),
                              email_sent |-> FALSE, done |-> FALSE, result |-> FALSE]
              /\ apc' = "gcp"
              /\ ret' = "set_alert"
              /\ UNCHANGED resp
  /\ UNCHANGED <<now, frameS, pricing, demo, fFrame, dFrame, fcall, dcall, price,
                 notifications, history, health, deact, batch, crossed>>

(* get_coin_price returns to the check_alert_and_notify of set_alert, which
   then answers 201 (alerts.py 134-145) *)
GcpReturnSetAlert(email_sent) ==
  /\ apc = "gcp_ret"
  /\ ret = "set_alert"
  /\ apc' = "idle"
  /\ EvalReturn(email_sent)
  /\ resp' = SetAlertResponse(ev'.result)
  /\ UNCHANGED <<now, frameS, pricing, demo, ret, nreq, fFrame, dFrame, fcall, dcall, price,
                 health, deact, batch>>

(* delete_alert, alerts.py 260-271, with deactivate_alert *)
DeleteAlert(alert_id) ==
  /\ apc = "idle"
  /\ nreq < MaxStoreOps
  /\ nreq' = nreq + 1
  /\ LET d == Deactivate(alerts, alert_id)
     IN /\ alerts' = d.alerts
        /\ deact' = [n |-> deact.n + 1, alert_id |-> alert_id,
                     was_active |-> \E i \in 1..Len(alerts) :
                                      alerts[i].id = alert_id /\ alerts[i].is_active,
                     result |-> d.result]
  /\ UNCHANGED <<now, frameS, pricing, demo, apc, ret, fFrame, dFrame, fcall, dcall, price,
                 ev, notifications, history, resp, health, batch, crossed>>

(* check_all_alerts, lines 141-147: the active alerts are read and the price
   of the first one is asked for *)
ReqBatch ==
  /\ apc = "idle"
  /\ nreq < MaxStoreOps
  /\ nreq' = nreq + 1
  /\ LET active_alerts == ActiveAlerts(alerts)
         b == [n |-> batch.n + 1, todo |-> active_alerts, size |-> Len(active_alerts),
               evaluated |-> 0, triggered |-> 0, no_trigger |-> 0, no_price |-> 0,
               seen |-> <<>>,
               n0 |-> notifications, h0 |-> Len(history), raised |-> FALSE,
               done |-> FALSE, result |-> PyNone]
     IN IF active_alerts = <<>>
          THEN /\ batch' = [b EXCEPT !.done = TRUE]
               /\ UNCHANGED <<apc, ret>>
          ELSE /\ batch' = b
               /\ apc' = "gcp"
               /\ ret' = "batch"
  /\ UNCHANGED <<now, frameS, pricing, demo, fFrame, dFrame, fcall, dcall, price, ev,
                 notifications, history, alerts, resp, health, deact,
                 crossed>>

(* get_coin_price returns to check_all_alerts, lines 152-158: the comparison
   of line 154 raises TypeError on a price that is not a number and nothing
   in check_all_alerts catches it; otherwise one line is logged and the loop
   goes on to the next alert or ends, the function returning None *)
GcpReturnBatch ==
  /\ apc = "gcp_ret"
  /\ ret = "batch"
  /\ LET alert == Head(batch.todo)
         rest == Tail(batch.todo)
         b == [batch EXCEPT !.todo = rest, !.evaluated = @ + 1,
                            !.seen = Append(@, [threshold_price |-> alert.threshold_price,
                                                price |-> price,
                                                out |-> fcall.out,
                                                upstream |-> fcall.upstream,
                                                sleeps |-> fcall.sleeps,
                                                at |-> now,
                                                state |-> pricing.state])]
     IN IF price # PyNone /\ price.py # "number"
          THEN /\ batch' = [b EXCEPT !.raised = TRUE, !.done = TRUE]
               /\ apc' = "idle"
          ELSE /\ batch' =
                    [(IF price # PyNone /\ ThresholdMet(price.v, alert.threshold_price)
                        THEN [b EXCEPT !.triggered = @ + 1]
                        ELSE [b EXCEPT !.no_trigger = @ + 1,
                                       !.no_price = IF price = PyNone THEN @ + 1 ELSE @])
                     EXCEPT !.done = (rest = <<>>)]
               /\ apc' = IF rest = <<>> THEN "idle" ELSE "gcp"
  /\ UNCHANGED <<now, frameS, pricing, demo, ret, nreq, fFrame, dFrame, fcall, dcall, price,
                 ev, notifications, history, alerts, resp, health, deact,
                 crossed>>

(* set_alert from the request body on: lines 103-107 and 146-147, then
   SetAlert with the parsed threshold *)
SetAlertRequest(user_id, user_email, field, row_ok) ==
  LET f == Float(field)
  IN IF f.raises
       THEN /\ apc = "idle"
            /\ nreq < MaxStoreOps
            /\ nreq' = nreq + 1
            /\ resp' = 400
            /\ UNCHANGED <<now, frameS, pricing, demo, apc, ret, fFrame, dFrame, fcall, dcall,
                           price, ev, notifications, history, alerts, health, deact, batch,
                           crossed>>
       ELSE SetAlert(user_id, user_email, f.v, row_ok)

(* a request to the health endpoint, health.py 37-81 *)
Health(db_ok) ==
  /\ apc = "idle"
  /\ nreq < MaxStoreOps
  /\ nreq' = nreq + 1
  /\ health' = [n |-> health.n + 1, db_ok |-> db_ok, response |-> HealthResponse(db_ok)]
  /\ UNCHANGED <<now, frameS, pricing, demo, apc, ret, fFrame, dFrame, fcall, dcall, price,
                 ev, notifications, history, alerts, resp, deact, batch, crossed>>

(* get_coin_price returns to check_alert_and_notify, and what happens inside
   send_alert_email is outcome: an exception leaving it would leave
   trigger_alert_email at line 90, before the history row, and be caught by
   check_alert_and_notify at line 66 *)
GcpReturnNotify(outcome) ==
  /\ apc = "gcp_ret"
  /\ ret = "eval"
  /\ apc' = "idle"
  /\ LET m == SendAlertEmail(outcome)
     IN IF /\ price.py = "number"
           /\ ThresholdMet(price.v, ev.alert.threshold_price)
           /\ m.raised
          THEN /\ ev' = [ev EXCEPT !.fetched = TRUE, !.price = price, !.done = TRUE,
                                   !.result = FALSE]
               /\ notifications' = notifications + 1
               /\ crossed' = crossed + 1
               /\ UNCHANGED <<history, alerts>>
          ELSE EvalReturn(m.value)
  /\ UNCHANGED <<now, frameS, pricing, demo, ret, nreq, fFrame, dFrame, fcall, dcall, price,
                 resp, health, deact, batch>>

(* delete_alert, alerts.py 218-271, requested by user_id: the user that
   require_auth puts in g.current_user is not read by the view *)
DeleteAlertAs(user_id, alert_id) == DeleteAlert(alert_id)

(* time passes between two fetches of a batch run, TickStep seconds at a
   time *)
TickBatch(limit) ==
  /\ apc = "gcp"
  /\ ret = "batch"
  /\ now + TickStep <= limit
  /\ now' = now + TickStep
  /\ UNCHANGED <<frameA, varsA>>

(* the answers of the pricing service to the requests that use the alert
   store: a price below or at the threshold, one that is not a number, or
   none *)
StoreBodies ==
  {body \in Bodies : /\ body.status = "success"
                     /\ body.has_data
                     /\ body.current_price \in {PyNum(1), PyNum(MaxPrice), PyText, PyNone}}

(* the requests that use the alert store *)
NextStore ==
  \/ \E user_email \in {"", "u1@example.org"}, threshold_price \in {0, MaxPrice},
        row_ok \in BOOLEAN :
       SetAlert("u1", user_email, threshold_price, row_ok)
  \/ \E email_sent \in BOOLEAN : GcpReturnSetAlert(email_sent)
  \/ \E i \in 1..Len(alerts) : ReqEval(alerts[i], "u1@example.org")
  \/ \E email_sent \in BOOLEAN : GcpReturnEval(email_sent)
  \/ \E alert_id \in {AlertIds[i] : i \in 1..MaxAlerts} \cup {"unknown"} :
       DeleteAlert(alert_id)
  \/ ReqBatch
  \/ GcpReturnBatch
  \/ GcpCall
  \/ \E body \in StoreBodies : FetchAttemptOk(body)

(* evaluations made on a fresh pricing breaker or on one that has opened *)
NextOutage ==
  \/ TickA(OutageStart + MaxOutageTime)
  \/ \E alert \in AlertInputs, user_email \in {"", "u1@example.org"} :
       ReqEval(alert, user_email)
  \/ GcpCall
  \/ \E body \in Bodies : FetchAttemptOk(body)
  \/ \E err \in FetchErrors : FetchAttemptFails(err)
  \/ \E email_sent \in BOOLEAN : GcpReturnEval(email_sent)

NextFetch ==
  \/ TickA(MaxAppTime)
  \/ ReqFetch
  \/ GcpCall
  \/ \E body \in Bodies : FetchAttemptOk(body)
  \/ \E err \in FetchErrors : FetchAttemptFails(err)
  \/ GcpReturnTop

NextDemo ==
  \/ TickA(MaxDemoTime)
  \/ ReqDemo
  \/ DemoAttempt
  \/ GcpCall
  \/ \E body \in Bodies : FetchAttemptOk(body)
  \/ \E err \in FetchErrors : FetchAttemptFails(err)
  \/ GcpReturnDemo

NextEval ==
  \/ TickA(MaxEvalTime)
  \/ \E alert \in AlertInputs, user_email \in {"", "u1@example.org"} :
       ReqEval(alert, user_email)
  \/ GcpCall
  \/ \E body \in Bodies : FetchAttemptOk(body)
  \/ \E err \in FetchErrors : FetchAttemptFails(err)
  \/ \E email_sent \in BOOLEAN : GcpReturnEval(email_sent)

(* creation requests and health requests, while the pricing service may be
   down *)
NextCreate ==
  \/ \E user_email \in {"", "u1@example.org"}, field \in ThresholdFields, row_ok \in BOOLEAN :
       SetAlertRequest("u1", user_email, field, row_ok)
  \/ \E email_sent \in BOOLEAN : GcpReturnSetAlert(email_sent)
  \/ \E db_ok \in BOOLEAN : Health(db_ok)
  \/ GcpCall
  \/ \E body \in StoreBodies : FetchAttemptOk(body)
  \/ \E err \in FetchErrors : FetchAttemptFails(err)

(* creations, deactivations and batch runs on one pricing breaker, while
   the pricing service is down *)
NextShared ==
  \/ SetAlert("u1", "u1@example.org", MaxPrice, TRUE)
  \/ \E email_sent \in BOOLEAN : GcpReturnSetAlert(email_sent)
  \/ \E user_id \in {"u1", "u2"}, alert_id \in {AlertIds[i] : i \in 1..MaxAlerts} :
       DeleteAlertAs(user_id, alert_id)
  \/ ReqBatch
  \/ TickBatch(MaxAppTime)
  \/ GcpReturnBatch
  \/ GcpCall
  \/ \E err \in FetchErrors : FetchAttemptFails(err)

(* evaluations, with the notifier's inside *)
NextNotify ==
  \/ TickA(MaxEvalTime)
  \/ \E alert \in AlertInputs, user_email \in {"", "u1@example.org"} :
       ReqEval(alert, user_email)
  \/ GcpCall
  \/ \E body \in Bodies : FetchAttemptOk(body)
  \/ \E err \in FetchErrors : FetchAttemptFails(err)
  \/ \E outcome \in MailOutcomes : GcpReturnNotify(outcome)

(* C9: a call of a guarded operation made while its breaker rejects ends
   with no invocation of the underlying operation, no attempt of the retry
   wrapper and no sleep, for _fetch_coin_price and for
   demo_resilient_call. *)
C9_BreakerOutermost ==
  /\ (apc = "gcp_ret" /\ fcall.open)
     => (/\ fcall.out = "circuit_open"
         /\ fcall.upstream = 0
         /\ fcall.attempts = 0
         /\ fcall.sleeps = 0)
  /\ (apc = "idle" /\ dcall.out # "none" /\ dcall.open)
     => (/\ dcall.body = 0
         /\ dcall.attempts = 0
         /\ dcall.sleeps = 0)

(* C10: an evaluation that fetched a price notifies and records a trigger
   exactly when the price is a number at or above the alert's threshold; an
   evaluation without a price, or without a recipient, does neither. *)
C10_TriggersIffAtOrAbove ==
  (apc = "idle" /\ ev.done)
  => /\ notifications - ev.n0 = Len(history) - ev.h0
     /\ notifications - ev.n0 \in {0, 1}
     /\ (notifications - ev.n0 = 1)
        <=> (/\ ev.fetched
             /\ ev.price # PyNone
             /\ ev.price.py = "number"
             /\ ev.price.v >= ev.alert.threshold_price)
     /\ (notifications - ev.n0 = 1)
        => (/\ Last(history).alert_id = ev.alert.id
            /\ Last(history).current_price = ev.price.v
            /\ Last(history).threshold_price = ev.alert.threshold_price)

C10_Witness ==
  /\ apc = "idle"
  /\ ev.done
  /\ ev.fetched
  /\ ev.price = PyNum(ev.alert.threshold_price)
  /\ notifications = ev.n0 + 1
  /\ Len(history) = ev.h0 + 1

(* C11: an evaluation whose price is at or above the threshold appends a
   trigger record whether send_alert_email returned True or False, and the
   record's email_sent is the value it returned. *)
C11_RecordWhateverTheNotifierSays ==
  (/\ apc = "idle"
   /\ ev.done
   /\ ev.fetched
   /\ ev.price.py = "number"
   /\ ev.price.v >= ev.alert.threshold_price)
  => /\ Len(history) = ev.h0 + 1
     /\ Last(history).alert_id = ev.alert.id
     /\ Last(history).email_sent = ev.email_sent

C11_Witness ==
  /\ apc = "idle"
  /\ ev.done
  /\ ev.fetched
  /\ ev.price.py = "number"
  /\ ev.price.v >= ev.alert.threshold_price
  /\ ~ev.email_sent
  /\ Len(history) = ev.h0 + 1
  /\ ~Last(history).email_sent

(* C12: the notifier is called once and one record appended for each
   evaluation whose price is at or above the threshold, and neither for any
   other evaluation: the number of calls of the notifier and the number of
   records both equal the number of such evaluations, and a step only ever
   appends to the history. *)
C12_OneNotificationOneRecordPerCrossing ==
  /\ [](notifications = crossed /\ Len(history) = crossed)
  /\ [][/\ Len(history') - Len(history) \in {0, 1}
        /\ SubSeq(history', 1, Len(history)) = history
        /\ notifications' - notifications = Len(history') - Len(history)
        /\ crossed' - crossed = Len(history') - Len(history)]_vars

C12_Witness ==
  /\ apc = "idle"
  /\ ev.done
  /\ crossed = 1
  /\ nreq = 2
  /\ Len(history) = 1

(* C13: the result of an evaluation that fetched a numeric price is true
   exactly when the price is at or above the threshold, whatever
   send_alert_email returned. *)
C13_ResultIsThePriceComparison ==
  (/\ apc = "idle"
   /\ ev.done
   /\ ev.fetched
   /\ ev.price.py = "number")
  => (ev.result <=> ev.price.v >= ev.alert.threshold_price)

(* C14: an evaluation whose price fetch failed (the breaker rejected the
   call, every attempt raised, or the answer held no usable price) returns
   False, calls the notifier zero times and appends no record. *)
C14_FetchFailureSkips ==
  (/\ apc = "idle"
   /\ ev.done
   /\ ev.fetched
   /\ (fcall.out # "data" \/ ev.price.py # "number"))
  => /\ ev.result = FALSE
     /\ notifications = ev.n0
     /\ Len(history) = ev.h0

C14_Witness ==
  /\ apc = "idle"
  /\ ev.done
  /\ ev.fetched
  /\ fcall.out = "circuit_open"
  /\ fcall.upstream = 0
  /\ ev.result = FALSE
  /\ notifications = ev.n0

C14_WitnessExhausted ==
  /\ apc = "idle"
  /\ ev.done
  /\ ev.fetched
  /\ fcall.out \in FetchErrors
  /\ fcall.attempts = FetchAttempts

(* C15: a batch run does not raise, and it evaluates every alert that was
   active when it started, also those that come after an alert whose
   evaluation raised. *)
C15_BatchContainsFailures ==
  (apc = "idle" /\ batch.done)
  => (~batch.raised /\ batch.evaluated = batch.size)

(* C16: a batch run calls the notifier and appends a trigger record for
   every active alert whose fetched price is at or above its threshold. *)
C16_BatchNotifies ==
  (apc = "idle" /\ batch.done)
  => /\ notifications - batch.n0 = batch.triggered
     /\ Len(history) - batch.h0 = batch.triggered

(* C17: a batch run returns a summary whose triggered is the number of
   alerts whose price met the threshold, whose skipped is the number whose
   price fetch failed and whose evaluated leaves out the alerts whose
   evaluation raised. *)
C17_BatchReturnsSummary ==
  (apc = "idle" /\ batch.done)
  => /\ batch.result.py = "summary"
     /\ batch.result.triggered = batch.triggered
     /\ batch.result.skipped = batch.no_price
     /\ batch.result.evaluated = batch.triggered + batch.no_trigger

(* C17 as amended: a batch run returns None; what it reports is logged, one
   line per alert: a "triggered" line for each alert whose price met its
   threshold, a "no trigger" line for each other alert whose comparison
   completed, showing price None when the fetch failed; an alert whose
   evaluation raised ends the run and is logged in neither. *)
C17_BatchLogsOutcomes ==
  (apc = "idle" /\ batch.done)
  => /\ batch.result = PyNone
     /\ Len(batch.seen) = batch.evaluated
     /\ batch.triggered =
          Cardinality({i \in 1..Len(batch.seen) :
                         /\ batch.seen[i].price.py = "number"
                         /\ batch.seen[i].price.v >= batch.seen[i].threshold_price})
     /\ batch.no_price =
          Cardinality({i \in 1..Len(batch.seen) : batch.seen[i].price = PyNone})
     /\ batch.triggered + batch.no_trigger =
          IF batch.raised THEN batch.evaluated - 1 ELSE batch.size

C17_Witness ==
  /\ apc = "idle"
  /\ batch.done
  /\ ~batch.raised
  /\ batch.size = 2
  /\ batch.triggered = 1
  /\ batch.no_price = 1

(* C18: a row enters the alerts table active; rows are never removed or
   re-keyed; a row turns inactive only in a step that is a deactivate_alert
   of its id; an inactive row is never active again. *)
C18_DeactivatedIsTerminal ==
  [][/\ Len(alerts') >= Len(alerts)
     /\ \A i \in 1..Len(alerts) :
          /\ alerts'[i].id = alerts[i].id
          /\ ~alerts[i].is_active => ~alerts'[i].is_active
          /\ (alerts[i].is_active /\ ~alerts'[i].is_active)
             => (/\ deact'.n = deact.n + 1
                 /\ deact'.alert_id = alerts[i].id
                 /\ deact'.result)
     /\ \A i \in (Len(alerts) + 1)..Len(alerts') : alerts'[i].is_active]_vars

C18_Witness ==
  /\ apc = "idle"
  /\ Len(alerts) = 2
  /\ ~alerts[1].is_active
  /\ alerts[2].is_active
  /\ deact.n = 1
  /\ batch.done
  /\ batch.size = 1
  /\ batch.h0 = 2

(* C19: deactivate_alert returns a boolean and never raises; on a known id
   it returns True and leaves that row inactive and every other row as it
   was, so that on an inactive row it changes nothing; on an unknown id it
   returns False and changes nothing. *)
C19_DeactivateIdempotentTotal ==
  [][(deact'.n # deact.n)
     => LET i == Find(alerts, deact'.alert_id)
        IN /\ deact'.result \in BOOLEAN
           /\ IF i = 0
                THEN deact'.result = FALSE /\ alerts' = alerts
                ELSE /\ deact'.result = TRUE
                     /\ alerts' = [alerts EXCEPT ![i].is_active = FALSE]
                     /\ ~alerts[i].is_active => alerts' = alerts]_vars

C19_Witness ==
  /\ deact.n = 2
  /\ deact.result
  /\ ~deact.was_active
  /\ Find(alerts, deact.alert_id) # 0
  /\ ~alerts[Find(alerts, deact.alert_id)].is_active

C19_WitnessUnknown ==
  /\ deact.n = 1
  /\ ~deact.result
  /\ Len(alerts) > 0
  /\ Find(alerts, deact.alert_id) = 0

(* C20: the step that completes an evaluation changes no row of the alerts
   table, and an evaluation of an alert fires whenever the price is at or
   above its threshold, whatever fired before. *)
C20_TriggerLeavesAlertUnchanged ==
  /\ [][(ev' # ev /\ ev'.done) => alerts' = alerts]_vars
  /\ []((/\ apc = "idle"
         /\ ev.done
         /\ ev.fetched
         /\ ev.price.py = "number"
         /\ ev.price.v >= ev.alert.threshold_price)
        => /\ notifications = ev.n0 + 1
           /\ Len(history) = ev.h0 + 1
           /\ Last(history).alert_id = ev.alert.id)

C20_Witness ==
  /\ apc = "idle"
  /\ ev.done
  /\ Len(history) = 2
  /\ history[1].alert_id = history[2].alert_id
  /\ Len(alerts) = 1
  /\ alerts[1].id = history[2].alert_id
  /\ alerts[1].is_active

(* C23: a fetch attempt answered with a non-2xx status is not retried: the
   fetch ends with that attempt, without a sleep. *)
C23_InvalidResponseNotRetried ==
  [][FetchAttemptFails("http_status")
     => (apc' = "gcp_ret" /\ fcall'.sleeps = fcall.sleeps)]_vars

(* C24: what get_coin_price gives its caller for a fetch the breaker
   rejected differs from None, which is what it gives for a fetch that
   exhausted its retries or was answered without a usable price. *)
C24_CircuitOpenIsDistinct ==
  (apc = "gcp_ret" /\ fcall.out = "circuit_open") => price # PyNone

(* C26: one call of demo_resilient_call passes through its breaker at most
   once and runs its body, whose failure is what raises failure_count, at
   most once. *)
C26_OnePassPerDemoCall ==
  (apc = "idle" /\ dcall.out # "none")
  => (dcall.attempts <= 1 /\ dcall.body <= 1)

(* C29: when the wrapper is done, its k-th sleep was delay * backoff^(k-1),
   and there is one sleep for each failed attempt but the last: none after
   the attempt that succeeded or the one that exhausted max_attempts. *)
C29_ExponentialBackoff ==
  (rpc = "done" /\ rArgs.max_attempts >= 1)
  => /\ \A k \in 1..Len(rSleeps) : rSleeps[k] = rArgs.delay * rArgs.backoff ^ (k - 1)
     /\ Len(rSleeps) = rInv - 1
     /\ rOut.kind = "op_error" => Len(rSleeps) = rArgs.max_attempts - 1

C29_Witness ==
  /\ rpc = "done"
  /\ rOut.kind = "op_error"
  /\ rArgs.max_attempts = 3
  /\ rArgs.backoff > 1
  /\ Len(rSleeps) = 2
  /\ rSleeps[2] > rSleeps[1]

(* C30: a call that succeeds leaves failure_count at 0, whatever the state
   it was made in. *)
C30_SuccessResetsCount ==
  [][(pcB = "running" /\ pcB' = "idle" /\ last'.op = "ok")
     => cb'.failure_count = 0]_vars

(* C21: a creation request whose threshold is not positive is answered 400
   and changes neither the alerts table nor the evaluation or the fetch, and
   every row of the alerts table has threshold_price > 0. *)
C21_StoredThresholdsArePositive ==
  /\ [](\A i \in 1..Len(alerts) :
          alerts[i].threshold_price # NaN /\ alerts[i].threshold_price > 0)
  /\ [][\A field \in ThresholdFields, user_email \in {"", "u1@example.org"},
           row_ok \in BOOLEAN :
          (/\ ~Float(field).raises
           /\ Le(Float(field).v, 0)
           /\ SetAlertRequest("u1", user_email, field, row_ok))
          => (/\ resp' = 400
              /\ apc' = "idle"
              /\ UNCHANGED <<alerts, ev, fcall, pricing>>)]_vars

(* C22: the step that ends the evaluation made right after create_alert
   answers 201 and leaves the created alert in the table, active, whatever
   the fetch and the notifier did. *)
C22_ImmediateCheckIsBestEffort ==
  [][(apc = "gcp_ret" /\ ret = "set_alert" /\ apc' = "idle")
     => (/\ resp' = 201
         /\ ev'.done
         /\ Len(alerts') = Len(alerts)
         /\ alerts'[Len(alerts')].id = ev.alert.id
         /\ alerts'[Len(alerts')].is_active)]_vars

C22_Witness ==
  /\ apc = "idle"
  /\ ret = "set_alert"
  /\ resp = 201
  /\ fcall.out = "circuit_open"
  /\ ev.done
  /\ ~ev.result
  /\ alerts[Find(alerts, ev.alert.id)].is_active

C22_WitnessExhausted ==
  /\ apc = "idle"
  /\ ret = "set_alert"
  /\ resp = 201
  /\ fcall.out = "connection"
  /\ fcall.upstream = FetchAttempts
  /\ alerts[Find(alerts, ev.alert.id)].is_active

C22_WitnessNotifierFailed ==
  /\ apc = "idle"
  /\ ret = "set_alert"
  /\ resp = 201
  /\ notifications = ev.n0 + 1
  /\ ~ev.email_sent
  /\ alerts[Find(alerts, ev.alert.id)].is_active

(* C25: test_pricing answers 503 exactly when the fetch was rejected by the
   breaker or exhausted its retries, and answers 200 only with a price. *)
C25_TestPricingAnswers503 ==
  (apc = "idle" /\ ret = "top" /\ fcall.out # "none")
  => (/\ resp = 503 <=> fcall.out \in {"circuit_open"} \cup FetchErrors
      /\ resp = 200 => price # PyNone)

(* C27: whatever happens inside send_alert_email, it raises nothing and
   returns True exactly when the mail was sent, and the evaluation that
   called it writes its history row, with that value as email_sent and as
   its own result. *)
C27_NotifierNeverRaises ==
  /\ [](\A outcome \in MailOutcomes :
          /\ ~SendAlertEmail(outcome).raised
          /\ SendAlertEmail(outcome).value <=> outcome = "sent")
  /\ [][\A outcome \in MailOutcomes :
          (GcpReturnNotify(outcome) /\ notifications' = notifications + 1)
          => (/\ Len(history') = Len(history) + 1
              /\ history'[Len(history')].email_sent = (outcome = "sent")
              /\ ev'.result = (outcome = "sent"))]_vars

C27_Witness ==
  /\ apc = "idle"
  /\ ev.done
  /\ notifications = ev.n0 + 1
  /\ Len(history) = ev.h0 + 1
  /\ ~history[Len(history)].email_sent
  /\ ~ev.result

(* C28: the health endpoint answers 200, 'ok', 'database connection ok' when
   SELECT 1 executed and only then, 503 and 'error' when it raised, and no
   exception leaves the view. *)
C28_HealthReflectsDatabase ==
  health.n > 0
  => (/\ ~health.response.escaped
      /\ health.db_ok
         => (/\ health.response.code = 200
             /\ health.response.status = "ok"
             /\ health.response.detail = "database connection ok")
      /\ ~health.db_ok
         => (/\ health.response.code = 503
             /\ health.response.status = "error"))

C28_Witness ==
  /\ health.n > 1
  /\ ~health.db_ok
  /\ health.response.code = 503

(* the fetches of SpecFetch that have returned to the route *)
FetchesDone == IF apc = "idle" THEN nreq ELSE nreq - 1

(* C31: while every fetch so far has exhausted its retries (failure_count
   equals the number of fetches done), the pricing breaker is CLOSED before
   the 5th failure and OPEN after it; each such fetch made 3 upstream
   requests and counted one failure; a fetch made while the breaker rejects
   makes no upstream request; the breaker lets a trial through only
   recovery_timeout after the last failure, and a trial that succeeds leaves
   it CLOSED with failure_count 0. *)
C31_FiveExhaustedFetchesOpenTheBreaker ==
  /\ []((pricing.failure_count = FetchesDone /\ FetchesDone < PricingThreshold)
        => pricing.state = CLOSED)
  /\ []((apc = "idle" /\ pricing.failure_count = FetchesDone
                        /\ FetchesDone = PricingThreshold)
        => pricing.state = OPEN)
  /\ []((apc = "gcp_ret" /\ fcall.out \in FetchErrors)
        => (fcall.upstream = FetchAttempts /\ fcall.sleeps = FetchAttempts - 1))
  /\ []((apc = "gcp_ret" /\ fcall.open)
        => (fcall.out = "circuit_open" /\ fcall.upstream = 0))
  /\ [][/\ (apc = "f_loop" /\ apc' = "gcp_ret" /\ fcall'.out \in FetchErrors)
           => pricing'.failure_count = pricing.failure_count + 1
        /\ (apc = "f_loop" /\ apc' = "f_loop")
           => pricing' = pricing
        /\ (pricing.state = OPEN /\ pricing'.state = HALF_OPEN)
           => now - pricing.last_failure_time >= PricingTimeout
        /\ (pricing.state = HALF_OPEN /\ apc' = "gcp_ret" /\ fcall'.out \notin FetchErrors)
           => (pricing'.state = CLOSED /\ pricing'.failure_count = 0)]_vars

(* five exhausted fetches, a sixth rejected, and a seventh that succeeded
   recovery_timeout later *)
C31_Witness ==
  /\ apc = "idle"
  /\ nreq = PricingThreshold + 2
  /\ fcall.out = "data"
  /\ pricing.state = CLOSED
  /\ pricing.failure_count = 0
  /\ pricing.last_failure_time = PricingThreshold * (FetchDelay + FetchDelay * DefaultBackoff)
  /\ now >= pricing.last_failure_time + PricingTimeout

(* the sixth fetch, rejected right after the fifth exhausted one *)
C31_WitnessRejected ==
  /\ apc = "gcp_ret"
  /\ nreq = PricingThreshold + 1
  /\ pricing.state = OPEN
  /\ pricing.failure_count = PricingThreshold
  /\ fcall.out = "circuit_open"
  /\ fcall.upstream = 0

(* C32: a batch run takes exactly the alerts that are active when it
   starts, and every alert it price-checks is active; a deactivated alert is
   in no later run. *)
C32_BatchTakesActiveAlertsOnly ==
  /\ [](~batch.done
        => \A k \in 1..Len(batch.todo) :
          /\ batch.todo[k].is_active
          /\ alerts[Find(alerts, batch.todo[k].id)].is_active)
  /\ [][/\ batch'.n = batch.n + 1
           => /\ batch'.size = Cardinality({i \in 1..Len(alerts) : alerts[i].is_active})
              /\ \A i \in 1..Len(alerts) :
                   alerts[i].is_active
                   <=> \E k \in 1..Len(batch'.todo) : batch'.todo[k].id = alerts[i].id
        /\ (ret = "batch" /\ apc = "gcp" /\ apc' # "gcp")
           => alerts[Find(alerts, Head(batch.todo).id)].is_active]_vars

(* a run over a table of two alerts of which one was deactivated before *)
C32_Witness ==
  /\ ret = "batch"
  /\ apc = "gcp_ret"
  /\ Len(alerts) = 2
  /\ \E i \in 1..2 : ~alerts[i].is_active
  /\ batch.size = 1
  /\ Len(batch.todo) = 1

(* C33: on the creation path and on the batch path alike, a fetch that
   exhausts its retries (on connection errors or on non-2xx answers) adds
   one to the failure_count of the one pricing breaker, and a fetch made
   while that breaker is OPEN and recovery_timeout has not passed is
   rejected without a price. *)
C33_OnePricingBreakerForAllCallers ==
  [][\A caller \in {"set_alert", "batch"} :
       /\ (ret = caller /\ apc = "f_loop" /\ apc' = "gcp_ret" /\ fcall'.out \in FetchErrors)
          => pricing'.failure_count = pricing.failure_count + 1
       /\ (/\ ret' = caller
           /\ apc \in {"idle", "gcp"}
           /\ apc' \in {"f_loop", "gcp_ret"}
           /\ pricing.state = OPEN
           /\ now - pricing.last_failure_time < PricingTimeout)
          => (/\ apc' = "gcp_ret"
              /\ fcall'.out = "circuit_open"
              /\ fcall'.upstream = 0
              /\ price' = PyNone)]_vars

(* a creation whose fetch is rejected by the breaker that a failure of the
   batch run opened *)
C33_Witness ==
  /\ ret = "set_alert"
  /\ apc = "gcp_ret"
  /\ fcall.out = "circuit_open"
  /\ batch.n = 1
  /\ \E i \in 1..Len(batch.seen) :
       batch.seen[i].out = "http_status" /\ batch.seen[i].state = OPEN

(* a batch run whose first fetch is rejected by the breaker that the failed
   fetch of a creation opened *)
C33_WitnessBatchRejected ==
  /\ ret = "batch"
  /\ apc = "gcp_ret"
  /\ fcall.out = "circuit_open"
  /\ batch.n = 1
  /\ batch.seen = <<>>
  /\ ev.alert.id = AlertIds[2]
  /\ pricing.failure_count = PricingThreshold
  /\ pricing.last_failure_time = PricingThreshold * FetchSeconds

(* the upstream requests of the fetches of seen *)
RECURSIVE SumUpstream(_)
SumUpstream(seen) ==
  IF seen = <<>> THEN 0 ELSE Head(seen).upstream + SumUpstream(Tail(seen))

(* the upstream requests of the current or most recent batch run *)
BatchUpstream ==
  SumUpstream(batch.seen)
  + (IF ret = "batch" /\ apc \in {"f_loop", "gcp_ret"} THEN fcall.upstream ELSE 0)

(* the fetches of the batch run whose failure left the breaker OPEN *)
Openers ==
  {i \in 1..Len(batch.seen) :
     batch.seen[i].out \in FetchErrors /\ batch.seen[i].state = OPEN}

FirstOpener == CHOOSE i \in Openers : \A j \in Openers : i <= j

(* C38: in a batch run all of whose fetches fail, as long as less than
   recovery_timeout has passed since a failure of the run first left the
   breaker OPEN, the run has made at most failure_threshold * max_attempts
   upstream requests, and every fetch after that failure was rejected with
   no upstream request and no sleep. *)
C38_BatchUpstreamBounded ==
  (/\ batch.n > 0
   /\ \A i \in 1..Len(batch.seen) : batch.seen[i].out \in FetchErrors \cup {"circuit_open"}
   /\ Openers # {} => now - batch.seen[FirstOpener].at < PricingTimeout)
  => (/\ BatchUpstream <= PricingThreshold * FetchAttempts
      /\ Openers # {}
         => \A j \in 1..Len(batch.seen) :
              j > FirstOpener
              => (/\ batch.seen[j].out = "circuit_open"
                  /\ batch.seen[j].upstream = 0
                  /\ batch.seen[j].sleeps = 0))

(* a run over MaxBatchAlerts alerts: PricingThreshold fetches exhausted
   their retries, the rest was rejected *)
C38_Witness ==
  /\ batch.done
  /\ batch.size = MaxBatchAlerts
  /\ Len(batch.seen) = MaxBatchAlerts
  /\ BatchUpstream = PricingThreshold * FetchAttempts
  /\ FirstOpener = PricingThreshold
  /\ batch.seen[MaxBatchAlerts].out = "circuit_open"
  /\ now - batch.seen[FirstOpener].at < PricingTimeout

(* C39: a deactivation requested by a user leaves every alert of every
   other user as it was. *)
C39_OnlyTheOwnerDeactivates ==
  [][\A user_id \in {"u1", "u2"}, alert_id \in {AlertIds[i] : i \in 1..MaxAlerts} :
       DeleteAlertAs(user_id, alert_id)
       => \A i \in 1..Len(alerts) :
            alerts[i].user_id # user_id => alerts'[i] = alerts[i]]_vars

(* no caller is inside CircuitBreaker.call *)
Quiescent == \A c \in Callers : pc[c] = "idle"

(* C34: whenever no call is in flight, under every interleaving of the
   callers, a CLOSED breaker has failure_count < failure_threshold, and an
   OPEN or HALF_OPEN one has failure_count >= failure_threshold and a
   last_failure_time that is set. *)
C34_StateAgreesWithCount ==
  Quiescent
  => /\ cb.state = CLOSED => cb.failure_count < failure_threshold
     /\ cb.state \in {OPEN, HALF_OPEN}
        => (cb.failure_count >= failure_threshold /\ cb.last_failure_time # None)

(* C35: whenever no call is in flight, under every interleaving of the
   callers, the breaker is CLOSED or OPEN. *)
C35_HalfOpenIsTransient ==
  Quiescent => cb.state \in {CLOSED, OPEN}

(* C37: whatever max_attempts is, the wrapper when done has invoked the
   operation at least once, and it has either returned the value of its
   last, successful, invocation or raised the operation's failure. *)
C37_ReturnsOnlyProducedValues ==
  rpc = "done"
  => /\ rInv >= 1
     /\ rOut.kind \in {"value", "op_error"}
     /\ rOut.kind = "value" => (rOut.after = rInv /\ rOut.val = rArgs.value)

(* C36: once the wrapped operation only succeeds, with time advancing and
   the caller calling again and again, the breaker is eventually CLOSED
   with failure_count 0 for good. *)
C36_BreakerRecovers == <>[](cb.state = CLOSED /\ cb.failure_count = 0)

(* the part of C36 about the state alone: the breaker is eventually CLOSED
   for good *)
C36_EventuallyClosed == <>[](cb.state = CLOSED)

SpecBreaker == Init /\ [][NextB]_vars

SpecConcurrent == Init /\ [][NextC]_vars

SpecRetry == Init /\ [][NextR]_vars

SpecFetch == InitApp /\ [][NextFetch]_vars

SpecDemo == InitApp /\ [][NextDemo]_vars

SpecEval == InitApp /\ [][NextEval]_vars

SpecOutage == InitOutage /\ [][NextOutage]_vars

SpecStore == InitApp /\ [][NextStore]_vars

SpecCreate == InitOutage /\ [][NextCreate]_vars

SpecNotify == InitApp /\ [][NextNotify]_vars

SpecShared == InitShared /\ [][NextShared]_vars

SpecRecover ==
  /\ Init
  /\ [][NextRec]_vars
  /\ WF_vars(RecTick)
  /\ WF_vars(RecCall)
  /\ WF_vars(RecReturn)

====
